---- MODULE Spec2Model ----
(***************************************************************************)
(* Model of apps/api/app/main.py: the environment-driven CORS policy       *)
(* resolution (get_cors_config), the module-level policy globals, the      *)
(* LogFilterMiddleware request pipeline, the /health and /cors-config      *)
(* handlers and the on_startup hook.                                       *)
(*                                                                         *)
(* A Python str is a sequence of one-character strings.  An environment    *)
(* variable is <<>> when it is not set and <<s>> when it is set to s.      *)
(***************************************************************************)
EXTENDS Integers, Sequences, FiniteSets, TLC

VARIABLES
    environ,          \* os.environ, restricted to the variables main.py reads
    environ0,         \* history: os.environ when main.py was imported
    phase,            \* "import" while main.py is being imported, then "constructed"
    allowed_origins,  \* module global, main.py line 80
    cors_mode,        \* module global, main.py line 80
    startup,          \* "uninitialized", "ready" or "failed" (on_startup)
    emitted,          \* the ui calls on_startup has made, in order
    disabled,         \* logging.getLogger("uvicorn.access").disabled
    disabled0,        \* history: the value of that flag before the first request
    sink_faulty,      \* the access logger is a stub whose disabled setter may raise
    max_inflight,     \* how many requests the server has in flight at once
    lifespan,         \* the server runs the startup event before it accepts requests
    client_origins,   \* the Origin header values the clients send
    overlapped,       \* history: two polling requests have been in flight together
    reqs,             \* per request slot: the dispatch() call in progress
    last              \* observation of the request that completed most recently

vars == <<environ, environ0, phase, allowed_origins, cors_mode, startup, emitted,
          disabled, disabled0, sink_faulty, max_inflight, lifespan,
          client_origins, overlapped, reqs, last>>

(***************************************************************************)
(* Bounds                                                                  *)
(***************************************************************************)
MaxLen == 3       \* longest CORS_ORIGINS value explored for the resolver
MaxEnvLen == 1    \* longest CORS_ORIGINS value explored while serving
NReq == 2         \* request slots (concurrently in-flight requests)

(***************************************************************************)
(* Strings                                                                 *)
(***************************************************************************)
EmptyStr == <<>>
S_true == <<"t", "r", "u", "e">>
S_false == <<"f", "a", "l", "s", "e">>
S_star == <<"*">>

Whitespace == {" "}

UpperChars == <<"T", "R", "U", "E", "A">>
LowerChars == <<"t", "r", "u", "e", "a">>

\* str.lower() on one character
LowerChar(c) ==
    IF \E i \in 1..Len(UpperChars) : UpperChars[i] = c
    THEN LowerChars[CHOOSE i \in 1..Len(UpperChars) : UpperChars[i] = c]
    ELSE c

\* str.lower()
lower(s) == [i \in 1..Len(s) |-> LowerChar(s[i])]

SetMin(S) == CHOOSE x \in S : \A y \in S : x <= y
SetMax(S) == CHOOSE x \in S : \A y \in S : x >= y

\* a plausible slip: only leading whitespace is removed
strip_LeadingOnly(s) ==
    LET keep == {i \in 1..Len(s) : s[i] \notin Whitespace}
    IN  IF keep = {} THEN EmptyStr ELSE SubSeq(s, SetMin(keep), Len(s))

\* str.strip()
strip(s) ==
    LET keep == {i \in 1..Len(s) : s[i] \notin Whitespace}
    IN  IF keep = {} THEN EmptyStr ELSE SubSeq(s, SetMin(keep), SetMax(keep))

\* a plausible slip: empty pieces are dropped, as str.split() without a
\* separator would do
RECURSIVE split_DropEmpty(_, _)
split_DropEmpty(s, sep) ==
    LET at == {i \in 1..Len(s) : s[i] = sep}
        head == IF at = {} THEN s ELSE SubSeq(s, 1, SetMin(at) - 1)
        rest == IF at = {} THEN <<>>
                ELSE split_DropEmpty(SubSeq(s, SetMin(at) + 1, Len(s)), sep)
    IN  (IF head = EmptyStr THEN <<>> ELSE <<head>>) \o rest

\* str.split(sep) for a one-character separator
RECURSIVE split(_, _)
split(s, sep) ==
    LET at == {i \in 1..Len(s) : s[i] = sep}
    IN  IF at = {} THEN <<s>>
        ELSE <<SubSeq(s, 1, SetMin(at) - 1)>>
                 \o split(SubSeq(s, SetMin(at) + 1, Len(s)), sep)

\* s contains sub as a contiguous substring (the Python `in` operator on str)
Contains(s, sub) ==
    \E i \in 0..(Len(s) - Len(sub)) : SubSeq(s, i + 1, i + Len(sub)) = sub

(***************************************************************************)
(* Environment                                                             *)
(***************************************************************************)
Unset == <<>>
SetTo(s) == <<s>>

\* os.getenv(key, default)
getenv(env, key, default) == IF env[key] = Unset THEN default ELSE env[key][1]

EnvKeys == {"CORS_ORIGINS", "DEBUG_CORS", "ENVIRONMENT", "DEBUG", "PORT"}

(***************************************************************************)
(* CORS policy resolution                                                  *)
(***************************************************************************)
\* a plausible slip: one of the six default origins is left out
DefaultOrigins_FiveEntries ==
    << <<"h", "t", "t", "p", ":", "/", "/", "l", "o", "c", "a", "l", "h", "o", "s", "t", ":", "3", "0", "0", "0">>,
       <<"h", "t", "t", "p", ":", "/", "/", "l", "o", "c", "a", "l", "h", "o", "s", "t", ":", "3", "0", "0", "1">>,
       <<"h", "t", "t", "p", ":", "/", "/", "1", "2", "7", ".", "0", ".", "0", ".", "1", ":", "3", "0", "0", "0">>,
       <<"h", "t", "t", "p", ":", "/", "/", "1", "2", "7", ".", "0", ".", "0", ".", "1", ":", "3", "0", "0", "1">>,
       <<"h", "t", "t", "p", ":", "/", "/", "l", "o", "c", "a", "l", "h", "o", "s", "t", ":", "8", "0", "8", "0">> >>

\* the development origins, get_cors_config lines 69-76
DefaultOrigins ==
    << <<"h", "t", "t", "p", ":", "/", "/", "l", "o", "c", "a", "l", "h", "o", "s", "t", ":", "3", "0", "0", "0">>,
       <<"h", "t", "t", "p", ":", "/", "/", "l", "o", "c", "a", "l", "h", "o", "s", "t", ":", "3", "0", "0", "1">>,
       <<"h", "t", "t", "p", ":", "/", "/", "1", "2", "7", ".", "0", ".", "0", ".", "1", ":", "3", "0", "0", "0">>,
       <<"h", "t", "t", "p", ":", "/", "/", "1", "2", "7", ".", "0", ".", "0", ".", "1", ":", "3", "0", "0", "1">>,
       <<"h", "t", "t", "p", ":", "/", "/", "l", "o", "c", "a", "l", "h", "o", "s", "t", ":", "8", "0", "8", "0">>,
       <<"h", "t", "t", "p", ":", "/", "/", "1", "2", "7", ".", "0", ".", "0", ".", "1", ":", "8", "0", "8", "0">> >>

\* os.getenv("DEBUG_CORS", "false").lower() == "true"
debug_flag(env) == lower(getenv(env, "DEBUG_CORS", S_false)) = S_true

\* a plausible slip: CORS_ORIGINS is consulted before the debug flag
get_cors_config_OriginsFirst(env) ==
    LET cors_origins == getenv(env, "CORS_ORIGINS", EmptyStr)
        debug_cors == debug_flag(env)
        pieces == split(cors_origins, ",")
    IN  IF cors_origins # EmptyStr
        THEN <<[i \in 1..Len(pieces) |-> strip(pieces[i])], "production">>
        ELSE IF debug_cors THEN << <<S_star>>, "debug" >>
        ELSE <<DefaultOrigins, "development">>

\* get_cors_config(): the pair (origins, mode)
get_cors_config(env) ==
    LET cors_origins == getenv(env, "CORS_ORIGINS", EmptyStr)
        debug_cors == debug_flag(env)
        pieces == split(cors_origins, ",")
    IN  IF debug_cors THEN << <<S_star>>, "debug" >>
        ELSE IF cors_origins # EmptyStr
        THEN <<[i \in 1..Len(pieces) |-> strip(pieces[i])], "production">>
        ELSE <<DefaultOrigins, "development">>

(***************************************************************************)
(* Module import: the policy globals                                       *)
(***************************************************************************)
OriginChars == {"a", "b", ",", " ", "*"}

\* every str over OriginChars of length at most n
StrsUpTo(n) == UNION {[1..k -> OriginChars] : k \in 0..n}

\* every spelling of "true" in upper and lower case letters
TrueSpellings ==
    {s \in [1..4 -> {"t", "r", "u", "e", "T", "R", "U", "E"}] :
        \A i \in 1..4 : s[i] \in {LowerChars[i], UpperChars[i]}}

DebugCorsValues ==
    {Unset, SetTo(EmptyStr), SetTo(S_false), SetTo(<<"1">>),
     SetTo(<<"t", "r", "u", "e", " ">>), SetTo(<<"t", "r", "u">>)}
        \cup {SetTo(s) : s \in TrueSpellings}

CorsOriginsValues(n) == {Unset} \cup {SetTo(s) : s \in StrsUpTo(n)}

Envs(n, debugValues) ==
    {[k \in EnvKeys |->
        IF k = "CORS_ORIGINS" THEN c
        ELSE IF k = "DEBUG_CORS" THEN d
        ELSE Unset] : c \in CorsOriginsValues(n), d \in debugValues}

NoBody == [kind |-> "none"]

IdleRequest ==
    [pc |-> "idle", path |-> EmptyStr, origin |-> Unset,
     original_disabled |-> FALSE, events |-> <<>>]

NoLast ==
    [path |-> EmptyStr, downstream |-> "none", status |-> "none",
     toggle_failed |-> FALSE, body |-> NoBody]

Slots == 1..NReq

\* the interpreter is about to execute main.py
InitResolve ==
    /\ environ \in Envs(MaxLen, DebugCorsValues)
    /\ environ0 = environ
    /\ phase = "import"
    /\ allowed_origins = <<>>
    /\ cors_mode = "unset"
    /\ startup = "uninitialized"
    /\ emitted = <<>>
    /\ disabled = FALSE
    /\ disabled0 = FALSE
    /\ sink_faulty = FALSE
    /\ max_inflight = 0
    /\ lifespan = TRUE
    /\ client_origins = {}
    /\ overlapped = FALSE
    /\ reqs = [r \in Slots |-> IdleRequest]
    /\ last = NoLast

\* main.py line 80: allowed_origins, cors_mode = get_cors_config()
ModuleImport ==
    /\ phase = "import"
    /\ phase' = "constructed"
    /\ allowed_origins' = get_cors_config(environ)[1]
    /\ cors_mode' = get_cors_config(environ)[2]
    /\ UNCHANGED <<environ, environ0, startup, emitted, disabled, disabled0,
                   sink_faulty, max_inflight, lifespan, client_origins,
                   overlapped, reqs, last>>

NextResolve == ModuleImport

SpecResolve == InitResolve /\ [][NextResolve]_vars

(***************************************************************************)
(* Properties of the resolved policy                                       *)
(***************************************************************************)
DebugCorsIsTrue == 
    /\ environ["DEBUG_CORS"] # Unset
    /\ environ["DEBUG_CORS"][1] \in TrueSpellings

CorsOriginsText == IF environ["CORS_ORIGINS"] = Unset THEN EmptyStr
                   ELSE environ["CORS_ORIGINS"][1]

\* t is p without its leading and trailing whitespace
IsTrimOf(t, p) ==
    /\ t # EmptyStr => (t[1] \notin Whitespace /\ t[Len(t)] \notin Whitespace)
    /\ \E a \in 0..Len(p) :
         /\ a + Len(t) <= Len(p)
         /\ SubSeq(p, a + 1, a + Len(t)) = t
         /\ \A i \in 1..a : p[i] \in Whitespace
         /\ \A i \in (a + Len(t) + 1)..Len(p) : p[i] \in Whitespace

CommaPositions(s) == {i \in 1..Len(s) : s[i] = ","}

\* the position of the k-th comma of s; 0 for k = 0, Len(s) + 1 past the last
CommaAt(s, k) ==
    IF k = 0 THEN 0
    ELSE IF k > Cardinality(CommaPositions(s)) THEN Len(s) + 1
    ELSE CHOOSE i \in CommaPositions(s) :
             Cardinality({j \in CommaPositions(s) : j < i}) = k - 1

\* the k-th comma-separated piece of s
PieceOf(s, k) == SubSeq(s, CommaAt(s, k - 1) + 1, CommaAt(s, k) - 1)

\* C1: whenever DEBUG_CORS spells "true" in any letter case, the resolved
\* policy is origins ["*"] in mode "debug", whatever CORS_ORIGINS is.
C1_DebugFlagWins ==
    (phase = "constructed" /\ DebugCorsIsTrue)
        => (allowed_origins = <<S_star>> /\ cors_mode = "debug")

C1_Witness ==
    /\ phase = "constructed"
    /\ environ["DEBUG_CORS"] = SetTo(<<"T", "r", "U", "e">>)
    /\ environ["CORS_ORIGINS"] = SetTo(<<"a", ",", "b">>)
    /\ cors_mode = "debug"

\* C2: when DEBUG_CORS does not spell "true" and CORS_ORIGINS is a non-empty
\* string, the mode is "production" and the origins are the comma-separated
\* pieces of CORS_ORIGINS, in order, each trimmed of surrounding whitespace,
\* one per piece (number of commas + 1), none dropped or merged.
C2_ProductionPieces ==
    (phase = "constructed" /\ ~DebugCorsIsTrue /\ CorsOriginsText # EmptyStr)
        => /\ cors_mode = "production"
           /\ Len(allowed_origins) = Cardinality(CommaPositions(CorsOriginsText)) + 1
           /\ \A k \in 1..Len(allowed_origins) :
                IsTrimOf(allowed_origins[k], PieceOf(CorsOriginsText, k))

C2_Witness ==
    /\ phase = "constructed"
    /\ environ["CORS_ORIGINS"] = SetTo(<<"a", " ", ",">>)
    /\ allowed_origins = << <<"a">>, EmptyStr >>
    /\ cors_mode = "production"

Scheme == <<"h", "t", "t", "p", ":", "/", "/">>
Localhost == <<"l", "o", "c", "a", "l", "h", "o", "s", "t">>
Loopback == <<"1", "2", "7", ".", "0", ".", "0", ".", "1">>
Port3000 == <<":", "3", "0", "0", "0">>
Port3001 == <<":", "3", "0", "0", "1">>
Port8080 == <<":", "8", "0", "8", "0">>

\* C3: when DEBUG_CORS is unset or does not spell "true" and CORS_ORIGINS is
\* unset or empty, the mode is "development" and the origins are exactly
\* http://localhost:3000, http://localhost:3001, http://127.0.0.1:3000,
\* http://127.0.0.1:3001, http://localhost:8080, http://127.0.0.1:8080.
C3_DevelopmentDefaults ==
    (phase = "constructed" /\ ~DebugCorsIsTrue /\ CorsOriginsText = EmptyStr)
        => /\ cors_mode = "development"
           /\ allowed_origins =
                << Scheme \o Localhost \o Port3000, Scheme \o Localhost \o Port3001,
                   Scheme \o Loopback \o Port3000, Scheme \o Loopback \o Port3001,
                   Scheme \o Localhost \o Port8080, Scheme \o Loopback \o Port8080 >>

C3_Witness ==
    /\ phase = "constructed"
    /\ environ["DEBUG_CORS"] = SetTo(S_false)
    /\ environ["CORS_ORIGINS"] = SetTo(EmptyStr)
    /\ cors_mode = "development"
    /\ Len(allowed_origins) = 6

\* C4 as stated: the mode is "debug" exactly when the origins are ["*"].
C4_DebugIffStar ==
    phase = "constructed"
        => (cors_mode = "debug" <=> allowed_origins = <<S_star>>)

\* C4 amended: mode "debug" implies origins ["*"]; origins ["*"] arise
\* otherwise only in mode "production", from a CORS_ORIGINS value that is
\* "*" with optional surrounding whitespace.
C4_StarOrigins ==
    phase = "constructed"
        => /\ cors_mode = "debug" => allowed_origins = <<S_star>>
           /\ allowed_origins = <<S_star>>
                <=> \/ cors_mode = "debug"
                    \/ /\ cors_mode = "production"
                       /\ IsTrimOf(S_star, CorsOriginsText)

C4_Witness ==
    /\ phase = "constructed"
    /\ cors_mode = "production"
    /\ allowed_origins = <<S_star>>
    /\ environ["CORS_ORIGINS"] = SetTo(<<" ", "*", " ">>)

(***************************************************************************)
(* Middleware stack                                                        *)
(***************************************************************************)
\* app.add_middleware(cls): Starlette inserts the class at the front of
\* app.user_middleware, and the front of that list is the outermost stage
add_middleware(stack, cls) == <<cls>> \o stack

\* main.py line 52, then lines 82-89
user_middleware ==
    add_middleware(add_middleware(<<>>, "LogFilterMiddleware"), "CORSMiddleware")

Marker == <<"/", "r", "e", "q", "u", "e", "s", "t", "s", "/", "a", "c", "t", "i", "v", "e">>
P_health == <<"/", "h", "e", "a", "l", "t", "h">>
P_cors_config == <<"/", "c", "o", "r", "s", "-", "c", "o", "n", "f", "i", "g">>
P_active == <<"/", "a", "p", "i", "/", "c", "h", "a", "t", "/", "p", "/", "r", "e", "q", "u", "e", "s", "t", "s", "/", "a", "c", "t", "i", "v", "e">>

Paths == {P_health, P_cors_config, P_active}

\* request.headers.get("origin"): no header, an empty header, a header
OriginHeaders == {Unset, SetTo(EmptyStr), SetTo(<<"o">>)}

\* a plausible slip: the marker tested is one that every path contains
suppressed_AnyPath(path) == Contains(path, <<"/">>)

\* "/requests/active" in request.url.path
suppressed(path) == Contains(path, Marker)

\* a plausible slip: the header is tested for presence, not for truthiness
tracer_events_AnyOrigin(env, origin) ==
    IF debug_flag(env) /\ origin # Unset THEN <<"print_trace">> ELSE <<>>

\* dispatch lines 31-36: the prints of the debug tracer
tracer_events(env, origin) ==
    IF debug_flag(env) /\ origin # Unset /\ origin[1] # EmptyStr
    THEN <<"print_trace">> ELSE <<>>

\* dispatch lines 39-43: the suppressor reaches logger.disabled = True
suppressor_events(path) ==
    IF suppressed(path) THEN <<"logger_disable">> ELSE <<>>

\* a plausible slip: the suppression block is placed above the tracer block
dispatch_entry_events_SuppressFirst(env, path, origin) ==
    suppressor_events(path) \o tracer_events(env, origin)

\* LogFilterMiddleware.dispatch from its first line to its call_next
dispatch_entry_events(env, path, origin) ==
    tracer_events(env, origin) \o suppressor_events(path)

\* what one stage does with a request before handing it to the next stage
stage_entry_events(cls, env, path, origin) ==
    IF cls = "CORSMiddleware" THEN <<"cors_enforcement">>
    ELSE dispatch_entry_events(env, path, origin)

\* the request travels down the stack, outermost stage first
RECURSIVE stack_entry_events(_, _, _, _)
stack_entry_events(stack, env, path, origin) ==
    IF stack = <<>> THEN <<>>
    ELSE stage_entry_events(Head(stack), env, path, origin)
             \o stack_entry_events(Tail(stack), env, path, origin)

(***************************************************************************)
(* Route handlers                                                          *)
(***************************************************************************)
\* a plausible slip: the liveness body reports failure
health_NotOk == [kind |-> "health", ok |-> FALSE]

\* GET /health
health == [kind |-> "health", ok |-> TRUE]

\* a plausible slip: the handler resolves the policy again on every call
cors_config_Fresh(env, origins, mode) ==
    [kind |-> "cors_config",
     cors_origins_env |-> getenv(env, "CORS_ORIGINS", EmptyStr),
     debug_cors |-> debug_flag(env),
     allowed_origins |-> get_cors_config(env)[1],
     cors_mode |-> get_cors_config(env)[2]]

\* a plausible slip: the handler compares DEBUG_CORS without .lower()
cors_config_CaseSensitiveFlag(env, origins, mode) ==
    [kind |-> "cors_config",
     cors_origins_env |-> getenv(env, "CORS_ORIGINS", EmptyStr),
     debug_cors |-> (getenv(env, "DEBUG_CORS", S_false) = S_true),
     allowed_origins |-> origins,
     cors_mode |-> mode]

\* GET /cors-config; origins and mode are the module globals
cors_config(env, origins, mode) ==
    [kind |-> "cors_config",
     cors_origins_env |-> getenv(env, "CORS_ORIGINS", EmptyStr),
     debug_cors |-> debug_flag(env),
     allowed_origins |-> origins,
     cors_mode |-> mode]

\* the included routers are opaque: a handler answers or raises
Outcomes(path) ==
    IF path \in {P_health, P_cors_config} THEN {"response"}
    ELSE {"response", "raise"}

\* a plausible slip: a handler rebinds the globals to a fresh resolution
policy_after_request_Refresh(env, origins, mode) == get_cors_config(env)

\* no handler assigns allowed_origins or cors_mode (none declares them global)
policy_after_request(env, origins, mode) == <<origins, mode>>

route_body(path, env, origins, mode) ==
    IF path = P_health THEN health
    ELSE IF path = P_cors_config THEN cors_config(env, origins, mode)
    ELSE [kind |-> "opaque"]

(***************************************************************************)
(* Serving                                                                 *)
(***************************************************************************)
ServingChars == {"a"}

ServingCorsOrigins ==
    {Unset} \cup {SetTo(s) : s \in UNION {[1..k -> ServingChars] : k \in 0..MaxEnvLen}}

ServingDebugCors == {Unset, SetTo(<<"T", "R", "U", "E">>)}

ServingEnvs ==
    {[k \in EnvKeys |->
        IF k = "CORS_ORIGINS" THEN c
        ELSE IF k = "DEBUG_CORS" THEN d
        ELSE Unset] : c \in ServingCorsOrigins, d \in ServingDebugCors}

InFlight == {r \in Slots : reqs[r].pc = "called"}

\* the environments in which ENVIRONMENT, DEBUG and PORT may be set as well
StartupEnvs ==
    {[e EXCEPT !["ENVIRONMENT"] = v, !["DEBUG"] = d, !["PORT"] = q] :
        e \in ServingEnvs,
        v \in {Unset, SetTo(<<"p", "r", "o", "d">>)},
        d \in {Unset, SetTo(S_true)},
        q \in {Unset, SetTo(<<"9", "0">>)}}

\* main.py has been imported: the globals are set, the stack is composed
InitProcess(envs, faulty, inflight, lifespan_on, origins) ==
    /\ environ \in envs
    /\ environ0 = environ
    /\ phase = "constructed"
    /\ allowed_origins = get_cors_config(environ)[1]
    /\ cors_mode = get_cors_config(environ)[2]
    /\ startup = "uninitialized"
    /\ emitted = <<>>
    /\ disabled \in BOOLEAN
    /\ disabled0 = disabled
    /\ sink_faulty = faulty
    /\ max_inflight = inflight
    /\ lifespan = lifespan_on
    /\ client_origins = origins
    /\ overlapped = FALSE
    /\ reqs = [r \in Slots |-> IdleRequest]
    /\ last = NoLast

\* the process under an ASGI server that runs the lifespan protocol
InitServing(faulty, inflight) ==
    InitProcess(ServingEnvs, faulty, inflight, TRUE, OriginHeaders)

\* the operator or a test harness changes CORS_ORIGINS or DEBUG_CORS
SetEnv(k, v) ==
    /\ phase = "constructed"
    /\ environ[k] # v
    /\ environ' = [environ EXCEPT ![k] = v]
    /\ UNCHANGED <<environ0, phase, allowed_origins, cors_mode, startup, emitted,
                   disabled, disabled0, sink_faulty, max_inflight, lifespan,
                   client_origins, overlapped, reqs, last>>

\* a plausible slip: the warning is keyed on the live DEBUG_CORS, not on cors_mode
startup_calls_WarnOnEnv(env, origins, mode) ==
    << [call |-> "ui.info", text |-> "Initializing database tables", data |-> <<>>],
       [call |-> "create_all", text |-> "", data |-> <<>>],
       [call |-> "ui.success", text |-> "Database initialization complete", data |-> <<>>],
       IF debug_flag(env)
       THEN [call |-> "ui.warning", text |-> "DEBUG MODE: CORS allows ALL origins", data |-> <<>>]
       ELSE IF mode = "production"
       THEN [call |-> "ui.info", text |-> "CORS configured for production origins", data |-> origins]
       ELSE [call |-> "ui.info", text |-> "CORS configured for local development", data |-> origins],
       [call |-> "ui.info", text |-> "API server ready", data |-> <<>>],
       [call |-> "ui.panel", text |-> "Available Endpoints", data |-> <<>>],
       [call |-> "ui.ascii_logo", text |-> "", data |-> <<>>],
       [call |-> "ui.status_line", text |-> "",
        data |-> << getenv(env, "ENVIRONMENT", <<"d", "e", "v", "e", "l", "o", "p", "m", "e", "n", "t">>),
                    getenv(env, "DEBUG", S_false),
                    getenv(env, "PORT", <<"8", "0", "0", "0">>),
                    mode >>] >>

\* on_startup: the calls it makes, in program order
startup_calls(env, origins, mode) ==
    << [call |-> "ui.info", text |-> "Initializing database tables", data |-> <<>>],
       [call |-> "create_all", text |-> "", data |-> <<>>],
       [call |-> "ui.success", text |-> "Database initialization complete", data |-> <<>>],
       IF mode = "debug"
       THEN [call |-> "ui.warning", text |-> "DEBUG MODE: CORS allows ALL origins", data |-> <<>>]
       ELSE IF mode = "production"
       THEN [call |-> "ui.info", text |-> "CORS configured for production origins", data |-> origins]
       ELSE [call |-> "ui.info", text |-> "CORS configured for local development", data |-> origins],
       [call |-> "ui.info", text |-> "API server ready", data |-> <<>>],
       [call |-> "ui.panel", text |-> "Available Endpoints", data |-> <<>>],
       [call |-> "ui.ascii_logo", text |-> "", data |-> <<>>],
       [call |-> "ui.status_line", text |-> "",
        data |-> << getenv(env, "ENVIRONMENT", <<"d", "e", "v", "e", "l", "o", "p", "m", "e", "n", "t">>),
                    getenv(env, "DEBUG", S_false),
                    getenv(env, "PORT", <<"8", "0", "0", "0">>),
                    mode >>] >>

\* a plausible slip: a failure of create_all is caught and startup goes on
on_startup_SwallowSchemaFailure(fail_at) ==
    LET calls == startup_calls(environ, allowed_origins, cors_mode)
    IN  /\ phase = "constructed"
        /\ startup = "uninitialized"
        /\ fail_at \in 0..Len(calls)
        /\ IF fail_at = 2
           THEN /\ emitted' = <<calls[1]>> \o SubSeq(calls, 3, Len(calls))
                /\ startup' = "ready"
           ELSE IF fail_at = 0
           THEN /\ emitted' = calls
                /\ startup' = "ready"
           ELSE /\ emitted' = SubSeq(calls, 1, fail_at - 1)
                /\ startup' = "failed"
        /\ UNCHANGED <<environ, environ0, phase, allowed_origins, cors_mode,
                       disabled, disabled0, sink_faulty, max_inflight, lifespan,
                       client_origins, overlapped, reqs, last>>

\* on_startup; fail_at = 0 when no call raises, else the call that raises
on_startup(fail_at) ==
    LET calls == startup_calls(environ, allowed_origins, cors_mode)
    IN  /\ phase = "constructed"
        /\ startup = "uninitialized"
        /\ fail_at \in 0..Len(calls)
        /\ IF fail_at = 0
           THEN /\ emitted' = calls
                /\ startup' = "ready"
           ELSE /\ emitted' = SubSeq(calls, 1, fail_at - 1)
                /\ startup' = "failed"
        /\ UNCHANGED <<environ, environ0, phase, allowed_origins, cors_mode,
                       disabled, disabled0, sink_faulty, max_inflight, lifespan,
                       client_origins, overlapped, reqs, last>>

\* a plausible slip: the flag is restored after the try block, not in finally
finally_disabled_NoFinally(outcome, original_disabled, current) ==
    IF outcome = "raise" THEN current ELSE original_disabled

\* a plausible slip: the finally clause re-enables the logger outright
finally_disabled_AlwaysEnable(outcome, original_disabled, current) == FALSE

\* dispatch line 47: the value the finally clause assigns to logger.disabled
finally_disabled(outcome, original_disabled, current) == original_disabled

\* a plausible slip: the application serves requests before its startup
\* handler has run
accepts_requests_BeforeStartup(lifespan_on, state) == TRUE

\* @app.on_event("startup"): under the lifespan protocol the server takes
\* requests only after on_startup has returned
accepts_requests(lifespan_on, state) == lifespan_on => state = "ready"

\* a request enters the stack and runs up to the await of call_next;
\* toggle_raises: the assignment logger.disabled = True raises
Enter(r, path, origin, toggle_raises) ==
    /\ phase = "constructed"
    /\ accepts_requests(lifespan, startup)
    /\ origin \in client_origins
    /\ reqs[r].pc = "idle"
    /\ Cardinality(InFlight) < max_inflight
    /\ toggle_raises => (sink_faulty /\ suppressed(path))
    /\ IF toggle_raises
       THEN /\ last' = [path |-> path, downstream |-> "none", status |-> "raised",
                        toggle_failed |-> TRUE, body |-> NoBody]
            /\ UNCHANGED <<reqs, disabled, overlapped>>
       ELSE /\ reqs' = [reqs EXCEPT ![r] =
                          [pc |-> "called", path |-> path, origin |-> origin,
                           original_disabled |->
                               IF suppressed(path) THEN disabled ELSE FALSE,
                           events |-> stack_entry_events(user_middleware, environ,
                                                         path, origin)]]
            /\ disabled' = IF suppressed(path) THEN TRUE ELSE disabled
            /\ overlapped' =
                 (overlapped \/ (suppressed(path) /\
                                   \E q \in InFlight : suppressed(reqs[q].path)))
            /\ UNCHANGED last
    /\ UNCHANGED <<environ, environ0, phase, allowed_origins, cors_mode, startup,
                   emitted, disabled0, sink_faulty, max_inflight, lifespan,
                   client_origins>>

\* call_next completes (the route handler answers or raises), the finally
\* clause runs and dispatch returns or raises;
\* toggle_raises: the assignment logger.disabled = original_disabled raises
Leave(r, outcome, toggle_raises) ==
    LET path == reqs[r].path
    IN  /\ reqs[r].pc = "called"
        /\ outcome \in Outcomes(path)
        /\ toggle_raises => (sink_faulty /\ suppressed(path))
        /\ disabled' =
             IF suppressed(path) /\ ~toggle_raises
             THEN finally_disabled(outcome, reqs[r].original_disabled, disabled)
             ELSE disabled
        /\ last' =
             [path |-> path, downstream |-> outcome,
              status |-> IF outcome = "raise" \/ toggle_raises
                         THEN "raised" ELSE "response",
              toggle_failed |-> toggle_raises,
              body |-> IF outcome = "raise" \/ toggle_raises THEN NoBody
                       ELSE route_body(path, environ, allowed_origins, cors_mode)]
        /\ reqs' = [reqs EXCEPT ![r] = IdleRequest]
        /\ allowed_origins' = policy_after_request(environ, allowed_origins, cors_mode)[1]
        /\ cors_mode' = policy_after_request(environ, allowed_origins, cors_mode)[2]
        /\ UNCHANGED <<environ, environ0, phase, startup, emitted, disabled0,
                       sink_faulty, max_inflight, lifespan, client_origins,
                       overlapped>>

Next ==
    \/ \E k \in {"CORS_ORIGINS"} : \E v \in ServingCorsOrigins : SetEnv(k, v)
    \/ \E k \in {"DEBUG_CORS"} : \E v \in ServingDebugCors : SetEnv(k, v)
    \/ \E f \in 0..Len(startup_calls(environ, allowed_origins, cors_mode)) : on_startup(f)
    \/ \E r \in Slots, path \in Paths, origin \in OriginHeaders, t \in BOOLEAN :
          Enter(r, path, origin, t)
    \/ \E r \in Slots, outcome \in {"response", "raise"}, t \in BOOLEAN :
          Leave(r, outcome, t)

\* the server with the standard logger, requests overlapping freely
Init == InitProcess(ServingEnvs, FALSE, NReq, TRUE, {SetTo(<<"o">>)})
Spec == Init /\ [][Next]_vars

\* one request at a time
InitSequential == InitServing(FALSE, 1)
SpecSequential == InitSequential /\ [][Next]_vars

\* one request at a time, the access logger replaced by a failing stub
InitFaultySink == InitServing(TRUE, 1)
SpecFaultySink == InitFaultySink /\ [][Next]_vars

\* a test client that sends requests without running the startup event; the
\* harness may call on_startup itself
InitHarness == InitProcess(ServingEnvs, FALSE, 1, FALSE, OriginHeaders)
SpecHarness == InitHarness /\ [][Next]_vars

\* the server started with ENVIRONMENT, DEBUG and PORT set or unset
InitStartup == InitProcess(StartupEnvs, FALSE, 1, TRUE, OriginHeaders)
SpecStartup == InitStartup /\ [][Next]_vars

(***************************************************************************)
(* Properties of the serving process                                       *)
(***************************************************************************)
\* this step is the completion of a GET /cors-config request
CorsConfigAnswered ==
    \E r \in Slots :
        /\ reqs[r].pc = "called"
        /\ reqs[r].path = P_cors_config
        /\ reqs'[r].pc = "idle"

\* C5 as stated: every /cors-config response carries, as allowed_origins and
\* cors_mode, the result of get_cors_config() on the environment at the time
\* of the call.
C5_FreshAtCallTime ==
    [][CorsConfigAnswered =>
         /\ last'.body.allowed_origins = get_cors_config(environ)[1]
         /\ last'.body.cors_mode = get_cors_config(environ)[2]]_vars

\* C5 amended: every /cors-config response carries, as allowed_origins and
\* cors_mode, the result of get_cors_config() on the environment at the time
\* main.py was imported, whatever the environment is at the time of the call.
C5_CachedAtImport ==
    [][CorsConfigAnswered =>
         /\ last'.body.allowed_origins = get_cors_config(environ0)[1]
         /\ last'.body.cors_mode = get_cors_config(environ0)[2]]_vars

C5_Witness ==
    /\ last.path = P_cors_config
    /\ last.status = "response"
    /\ last.body.cors_origins_env = getenv(environ, "CORS_ORIGINS", EmptyStr)
    /\ last.body.debug_cors = debug_flag(environ)
    /\ last.body.debug_cors
    /\ last.body.cors_mode = "production"

\* C6: the policy globals hold the resolution made at import and no step
\* taken after construction (environment mutation, startup, request entry
\* or completion) changes them.
C6_PolicyFrozen ==
    /\ [](phase = "constructed" =>
            /\ allowed_origins = get_cors_config(environ0)[1]
            /\ cors_mode = get_cors_config(environ0)[2])
    /\ [][phase = "constructed" =>
            /\ allowed_origins' = allowed_origins
            /\ cors_mode' = cors_mode]_vars

C6_Witness ==
    /\ startup = "ready"
    /\ last.path = P_cors_config
    /\ InFlight # {}
    /\ get_cors_config(environ)[2] = "debug"
    /\ cors_mode = "development"

\* C7: with one request at a time, after a request to a polling path has
\* returned or raised, the logger's disabled flag is what it was before the
\* request, and a failure of the downstream call has been raised to the caller.
C7_RestoredAfterSingleRequest ==
    (InFlight = {} /\ last.status # "none" /\ suppressed(last.path))
        => /\ disabled = disabled0
           /\ last.downstream = "raise" => last.status = "raised"
           /\ last.downstream = "response" => last.status = "response"

C7_Witness ==
    /\ InFlight = {}
    /\ suppressed(last.path)
    /\ last.downstream = "raise"
    /\ last.status = "raised"
    /\ disabled0 = FALSE
    /\ disabled = FALSE

\* C8: whenever no request is in flight, the logger's disabled flag is what
\* it was before the first request, under every interleaving of requests.
C8_NoLeakAcrossRequests == InFlight = {} => disabled = disabled0

\* C9: a request to a polling path on which a toggle of the logger's disabled
\* flag raises still returns the downstream response, and leaves the flag as
\* it was before the request.
C9_ToggleFailureTolerated ==
    (InFlight = {} /\ last.toggle_failed)
        => /\ last.downstream # "raise" => last.status = "response"
           /\ disabled = disabled0

\* a occurs before b in ev whenever both occur
Precedes(a, b, ev) ==
    \A i, j \in 1..Len(ev) : (ev[i] = a /\ ev[j] = b) => i < j

\* C10 as stated: the suppressor's disable step precedes the tracer's
\* emission, and both precede the CORS-enforcement stage.
C10_SuppressorTracerCors ==
    \A r \in InFlight :
        /\ Precedes("logger_disable", "print_trace", reqs[r].events)
        /\ Precedes("print_trace", "cors_enforcement", reqs[r].events)
        /\ Precedes("logger_disable", "cors_enforcement", reqs[r].events)

\* C10 amended: a request that reaches route dispatch has passed the
\* CORS-enforcement stage first, then the tracer's emission, then the
\* suppressor's disable step.
C10_CorsTracerSuppressor ==
    \A r \in InFlight :
        /\ reqs[r].events # <<>>
        /\ reqs[r].events[1] = "cors_enforcement"
        /\ Precedes("cors_enforcement", "print_trace", reqs[r].events)
        /\ Precedes("print_trace", "logger_disable", reqs[r].events)
        /\ Precedes("cors_enforcement", "logger_disable", reqs[r].events)
        /\ suppressed(reqs[r].path) =>
             reqs[r].events[Len(reqs[r].events)] = "logger_disable"

C10_Witness ==
    \E r \in InFlight :
        reqs[r].events = <<"cors_enforcement", "print_trace", "logger_disable">>

(***************************************************************************)
(* Properties of startup                                                   *)
(***************************************************************************)
\* the positions in the startup log of the calls named call
CallsOf(call) == {i \in 1..Len(emitted) : emitted[i].call = call}

SomeRequestHandled == InFlight # {} \/ last.status # "none"

\* C11: create_all is invoked at most once, and whenever a request is being
\* or has been handled that invocation has completed and the startup
\* sequencer has left the uninitialized state for ready.
C11_SchemaOnceBeforeRequests ==
    /\ [](/\ Cardinality(CallsOf("create_all")) <= 1
          /\ SomeRequestHandled =>
                (startup = "ready" /\ CallsOf("create_all") # {}))
    /\ [][startup # "uninitialized" => emitted' = emitted]_vars

C11_Witness ==
    /\ startup = "ready"
    /\ Cardinality(CallsOf("create_all")) = 1
    /\ Cardinality(InFlight) = 2
    /\ last.status = "response"

\* on_startup has run and create_all did not complete
SchemaCreationFailed ==
    /\ startup # "uninitialized"
    /\ emitted # <<>>
    /\ CallsOf("create_all") = {}

\* C12: when create_all fails, on_startup ends in failure and never reaches
\* ready, nothing after the first status line is emitted, create_all is not
\* tried again and no request is ever served.
C12_SchemaFailureIsFatal ==
    /\ [](SchemaCreationFailed =>
            /\ startup = "failed"
            /\ Len(emitted) = 1
            /\ ~SomeRequestHandled)
    /\ [][SchemaCreationFailed =>
            (startup' = startup /\ emitted' = emitted /\ reqs' = reqs)]_vars

C12_Witness ==
    /\ SchemaCreationFailed
    /\ startup = "failed"
    /\ emitted[1].call = "ui.info"
    /\ environ # environ0

\* C13: once create_all has succeeded, on_startup ends in the ready state
\* even when one of the later status emissions fails.
C13_EmissionFailureRecovered ==
    (startup # "uninitialized" /\ CallsOf("create_all") # {})
        => startup = "ready"

(***************************************************************************)
(* Properties of request handling                                          *)
(***************************************************************************)
\* this step takes request r into dispatch up to its call_next
EnterStep(r) == reqs[r].pc = "idle" /\ reqs'[r].pc = "called"

\* this step completes request r
LeaveStep(r) == reqs[r].pc = "called" /\ reqs'[r].pc = "idle"

\* the path of the request that this step of slot r belongs to
StepPath(r) == IF reqs[r].pc = "idle" THEN reqs'[r].path ELSE reqs[r].path

\* C14: a GET /health request is answered with the body ok = true, whatever
\* the policy mode, the environment and the state of startup, and neither
\* its entry nor its completion changes the policy globals, the startup
\* state, the startup log, the environment or the logger's disabled flag.
C14_HealthAlwaysOk ==
    [][\A r \in Slots :
          ((EnterStep(r) \/ LeaveStep(r)) /\ StepPath(r) = P_health)
             => /\ LeaveStep(r) =>
                     /\ last'.status = "response"
                     /\ last'.body.kind = "health"
                     /\ last'.body.ok = TRUE
                /\ disabled' = disabled
                /\ allowed_origins' = allowed_origins
                /\ cors_mode' = cors_mode
                /\ startup' = startup
                /\ emitted' = emitted
                /\ environ' = environ]_vars

C14_Witness ==
    /\ last.path = P_health
    /\ last.status = "response"
    /\ last.body.ok
    /\ startup = "failed"
    /\ CallsOf("create_all") = {}
    /\ cors_mode = "debug"

\* C15: while a request to a polling path is in its downstream call, the
\* logger's disabled flag is true.
C15_DisabledWhilePollingInFlight ==
    (\E r \in InFlight : Contains(reqs[r].path, Marker)) => disabled = TRUE

\* the polling requests now in their downstream call
PollingInFlight == {q \in InFlight : Contains(reqs[q].path, Marker)}

\* C16: a request to a non-polling path can be in its downstream call while
\* the logger is disabled by a concurrent polling request (C16_Witness), and
\* as long as no two polling requests have overlapped that is the only way:
\* the flag differs from its initial value only while a polling request that
\* saved the initial value is in flight and has set the flag.
C16_MutedOnlyByPollingInFlight ==
    (~overlapped /\ disabled # disabled0)
        => /\ disabled = TRUE
           /\ \E q \in PollingInFlight : reqs[q].original_disabled = disabled0

C16_Witness ==
    /\ ~overlapped
    /\ disabled0 = FALSE
    /\ disabled = TRUE
    /\ \E r \in InFlight : reqs[r].path = P_health
    /\ Cardinality(PollingInFlight) = 1

\* C17: no step of a request to a non-polling path changes the logger's
\* disabled flag, and no step of any request changes the environment, the
\* policy globals, the startup state or the startup log.
C17_OnlyPollingTouchesSwitch ==
    [][\A r \in Slots :
          (EnterStep(r) \/ LeaveStep(r))
             => /\ ~Contains(StepPath(r), Marker) => disabled' = disabled
                /\ environ' = environ
                /\ allowed_origins' = allowed_origins
                /\ cors_mode' = cors_mode
                /\ startup' = startup
                /\ emitted' = emitted]_vars

C17_Witness ==
    /\ last.path = P_cors_config
    /\ last.status = "response"
    /\ disabled = FALSE
    /\ \E r \in InFlight : reqs[r].path = P_health

Traced(ev) == \E i \in 1..Len(ev) : ev[i] = "print_trace"

\* C18: on entry of a request the tracer prints exactly when DEBUG_CORS
\* spells "true" at that time and the request has a non-empty Origin header,
\* and it has printed before the downstream call is made; the request handed
\* downstream is the one received and the response returned upstream is the
\* one the handler produced.
C18_TracerObservesOnly ==
    [][\A r \in Slots :
          /\ EnterStep(r) =>
               (Traced(reqs'[r].events)
                   <=> (/\ DebugCorsIsTrue
                        /\ reqs'[r].origin # Unset
                        /\ reqs'[r].origin[1] # EmptyStr))
          /\ LeaveStep(r) =>
               /\ last'.path = reqs[r].path
               /\ last'.downstream = "response" =>
                    /\ last'.status = "response"
                    /\ last'.body = route_body(reqs[r].path, environ,
                                               allowed_origins, cors_mode)
               /\ last'.downstream = "raise" => last'.status = "raised"]_vars

C18_Witness ==
    \E r \in InFlight :
        /\ Traced(reqs[r].events)
        /\ reqs[r].origin = SetTo(<<"o">>)
        /\ reqs[r].path = P_cors_config
        /\ last.path = P_health

CorsTexts ==
    {"DEBUG MODE: CORS allows ALL origins",
     "CORS configured for production origins",
     "CORS configured for local development"}

CorsMessages == {i \in 1..Len(emitted) : emitted[i].text \in CorsTexts}

\* C19: after a successful on_startup the log holds, in this order, one
\* create_all, one CORS message (a warning exactly when cors_mode is "debug",
\* otherwise an info carrying allowed_origins), the endpoint panel, the
\* banner and the status line with ENVIRONMENT, DEBUG, PORT and cors_mode.
C19_StartupOrder ==
    startup = "ready" =>
        /\ Cardinality(CallsOf("create_all")) = 1
        /\ Cardinality(CorsMessages) = 1
        /\ Cardinality(CallsOf("ui.panel")) = 1
        /\ Cardinality(CallsOf("ui.ascii_logo")) = 1
        /\ Cardinality(CallsOf("ui.status_line")) = 1
        /\ \A a \in CallsOf("create_all"), c \in CorsMessages, p \in CallsOf("ui.panel"),
              b \in CallsOf("ui.ascii_logo"), l \in CallsOf("ui.status_line") :
              /\ a < c /\ c < p /\ p < b /\ b < l
              /\ l = Len(emitted)
              /\ emitted[c].call = "ui.warning" <=> cors_mode = "debug"
              /\ cors_mode = "debug" =>
                    emitted[c].text = "DEBUG MODE: CORS allows ALL origins"
              /\ cors_mode = "production" =>
                    /\ emitted[c].call = "ui.info"
                    /\ emitted[c].text = "CORS configured for production origins"
                    /\ emitted[c].data = allowed_origins
              /\ cors_mode = "development" =>
                    /\ emitted[c].call = "ui.info"
                    /\ emitted[c].text = "CORS configured for local development"
                    /\ emitted[c].data = allowed_origins
              /\ Len(emitted[l].data) = 4
              /\ environ["ENVIRONMENT"] # Unset =>
                    emitted[l].data[1] = environ["ENVIRONMENT"][1]
              /\ environ["DEBUG"] # Unset => emitted[l].data[2] = environ["DEBUG"][1]
              /\ environ["PORT"] # Unset => emitted[l].data[3] = environ["PORT"][1]
              /\ emitted[l].data[4] = cors_mode

C19_Witness ==
    /\ startup = "ready"
    /\ cors_mode = "production"
    /\ environ["PORT"] = SetTo(<<"9", "0">>)
    /\ environ["ENVIRONMENT"] = Unset
    /\ DebugCorsIsTrue
    /\ Len(emitted) = 8

\* the origins are the trimmed comma-separated pieces of text
DerivedFrom(origins, text) ==
    /\ Len(origins) = Cardinality(CommaPositions(text)) + 1
    /\ \A k \in 1..Len(origins) : IsTrimOf(origins[k], PieceOf(text, k))

\* the raw and the resolved fields of a /cors-config body agree
BodyConsistent(body) ==
    /\ body.debug_cors <=> body.cors_mode = "debug"
    /\ body.cors_mode = "production" =>
          DerivedFrom(body.allowed_origins, body.cors_origins_env)

\* C20 as stated: in every /cors-config response debug_cors is true exactly
\* when cors_mode is "debug", and in mode "production" allowed_origins are the
\* pieces of cors_origins_env.
C20_BodyAlwaysConsistent ==
    (last.path = P_cors_config /\ last.status = "response")
        => BodyConsistent(last.body)

\* C20 amended: in every /cors-config response debug_cors and
\* cors_origins_env are read from the environment at the time of the call,
\* and the body is consistent whenever DEBUG_CORS and CORS_ORIGINS are then
\* what they were when main.py was imported.
C20_ConsistentWhileEnvUnchanged ==
    [][CorsConfigAnswered =>
         /\ last'.body.debug_cors <=> DebugCorsIsTrue
         /\ last'.body.cors_origins_env = CorsOriginsText
         /\ (/\ environ["DEBUG_CORS"] = environ0["DEBUG_CORS"]
             /\ environ["CORS_ORIGINS"] = environ0["CORS_ORIGINS"])
                => BodyConsistent(last'.body)]_vars

C20_Witness ==
    /\ last.path = P_cors_config
    /\ last.status = "response"
    /\ environ = environ0
    /\ ~last.body.debug_cors
    /\ last.body.cors_mode = "production"
    /\ last.body.cors_origins_env = <<"a">>
    /\ last.body.allowed_origins = << <<"a">> >>

====
